---------------------------- MODULE Spec2Model ----------------------------
(*************************************************************************)
(* A model of two parts of taf:                                          *)
(*   - taf/updater/AuthenticationRepo.py: the walk over the revisions of *)
(*     an authentication repository that builds, per target path, the    *)
(*     list of commits the target metadata pinned it to;                 *)
(*   - taf/yubikey.py: the process-wide YubiKey registry and the         *)
(*     interactive discovery loop yubikey_prompt.                        *)
(*************************************************************************)
EXTENDS Integers, Sequences, FiniteSets, TLC

(*************************************************************************)
(* Bounds of the model.                                                  *)
(*************************************************************************)
\* The longest revision list that is walked.
MaxRevs == 2

\* The PIN attempts of a token before it locks.
PinAttempts == 2

\* The most discovery passes one yubikey_prompt call retries.
MaxRetries == 1

\* The most RSA keys setup generates.
MaxKeys == 1

(*************************************************************************)
(* The authentication repository as get_json sees it.                    *)
(*                                                                       *)
(* Revision i of the walked list is store[i].  A revision is what        *)
(* get_json(commit, <metadata_path>/targets.json) does there ("root")    *)
(* and, when it parses, the target paths of signed.targets in document   *)
(* order, each with what get_json(commit, <targets_path>/<path>) does    *)
(* ("desc").  A list that names one revision twice reads the same        *)
(* documents twice, which is the list of two revisions with equal        *)
(* documents.                                                            *)
(*************************************************************************)
Paths == {"A", "B"}
Commits == {"c1", "c2"}

\* Python's None.
None == "None"

\* What reading the root metadata of a revision does: it yields
\* signed.targets ("ok"), raises CalledProcessError ("unavailable"), raises
\* JSONDecodeError ("malformed"), or parses to JSON without signed.targets
\* ("nosigned": the subscript raises KeyError or TypeError).
RootOutcomes == {"ok", "unavailable", "malformed", "nosigned"}

\* What reading a target descriptor does: CalledProcessError, JSONDecodeError,
\* JSON that is not an object (.get raises AttributeError), an object
\* without "commit" (or with a null one), or an object with a commit.
DescOutcomes == {"unavailable", "malformed", "notobject", "nocommit"} \cup Commits

Entry == [path : Paths, desc : DescOutcomes]

\* The sequences over a set, up to a length.
RECURSIVE SeqsUpTo(_, _)
SeqsUpTo(S, n) ==
    IF n = 0 THEN {<<>>}
    ELSE LET shorter == SeqsUpTo(S, n - 1)
         IN  shorter \cup {Append(s, e) : s \in shorter, e \in S}

\* The target paths of a JSON object are pairwise different keys.
DistinctPaths(s) == \A i, j \in 1..Len(s) : i # j => s[i].path # s[j].path

Revisions ==
    {[root |-> r, targets |-> <<>>] : r \in RootOutcomes \ {"ok"}} \cup
    {[root |-> "ok", targets |-> t] :
        t \in {s \in SeqsUpTo(Entry, Cardinality(Paths)) : DistinctPaths(s)}}

(*************************************************************************)
(* The YubiKeys and the callers of taf.yubikey.                          *)
(*************************************************************************)
\* The serial numbers of the tokens; NoSerial is None as a serial.
Serials == {1, 2}
NoSerial == 0

\* The PINs a user can type; every token's PIN is "p1".
Pins == {"p1", "p2"}
TokenPin(serial) == "p1"

\* The public key in a token's SIGNATURE slot, in TUF format.
KeyOf(serial) == IF serial = 1 THEN "key1" ELSE "key2"
Keys == {KeyOf(serial) : serial \in Serials}

KeyNames == {"k1"}
Role == "root"

\* The taf_repo arguments: no repository, or a repository whose metadata
\* lists key1 alone as a signer of the role.
Repos == {None, "repo1"}
SignersOf(taf_repo) == IF taf_repo = "repo1" THEN {"key1"} ELSE {}

\* The arguments of a yubikey_prompt call; loaded_yubikeys is None or the
\* caller's map ("shared").  Without a role neither taf_repo nor
\* registering_new_key nor loaded_yubikeys is read to any effect, so such
\* calls are made with their defaults.
Args ==
    {a \in [key_name : KeyNames, role : {None, Role}, taf_repo : Repos,
            registering_new_key : BOOLEAN, creating_new_key : BOOLEAN,
            loaded_yubikeys : {None, "shared"}, retry_on_failure : BOOLEAN,
            serial : {NoSerial} \cup Serials] :
        a.role = None =>
            /\ a.taf_repo = None
            /\ ~a.registering_new_key
            /\ a.loaded_yubikeys = None}

NoArgs ==
    [key_name |-> "k1", role |-> None, taf_repo |-> None,
     registering_new_key |-> FALSE, creating_new_key |-> FALSE,
     loaded_yubikeys |-> None, retry_on_failure |-> FALSE,
     serial |-> NoSerial]

NoResult == [state |-> "none", key |-> None, serial |-> NoSerial]

(*************************************************************************)
(* The tokens and the callers of the token operations.                   *)
(*************************************************************************)
\* DEFAULT_PIN, DEFAULT_PUK and yubikit's DEFAULT_MANAGEMENT_KEY.
DEFAULT_PIN == "123456"
DEFAULT_PUK == "12345678"
DEFAULT_MANAGEMENT_KEY == "default_mgm"

\* The mgm_key argument of setup: its default is computed once, when the
\* module is imported.
MgmKey == "mgm_key"

\* A private key a caller passes to setup as private_key_pem.
PrivateKeyPems == {"pemA", "pemE"}

\* The PEM is encrypted: load_pem_private_key(private_key_pem, None, ...)
\* raises TypeError and setup asks for the password.
Encrypted(pem) == pem = "pemE"

\* The n-th key rsa.generate_private_key returns: a key no call has seen.
GeneratedKey(n) == "g" \o ToString(n)

\* A PEM text is its body and its "\n" at the end; NoPem is None as a
\* pub_key_pem argument.
NoPem == <<>>
Pem(key) == <<key, "\n">>
ButLast(text) == SubSeq(text, 1, Len(text) - 1)

\* The management key a token got from a setup of an earlier process,
\* whose default mgm_key was another random key.
EarlierMgmKey(serial) == "mgm_key_" \o ToString(serial)

\* What the PIV applet of a token holds: the private key and the
\* certificate (by its public key) of the SIGNATURE slot, the management
\* key, the PIN and the PUK, and whether the three slots after SIGNATURE
\* all hold a certificate.
\* Token 2 has had certificates loaded into its other slots.
OthersFull(serial) == serial = 2

\* A token is plugged in as a setup that completed in an earlier process
\* has left it.
Provisioned(serial) ==
    [key |-> KeyOf(serial), cert |-> KeyOf(serial),
     mgm |-> EarlierMgmKey(serial),
     pin |-> TokenPin(serial), puk |-> TokenPin(serial),
     others |-> OthersFull(serial)]

\* The token after the PIV reset.
FactoryState ==
    [key |-> None, cert |-> None, mgm |-> DEFAULT_MANAGEMENT_KEY,
     pin |-> DEFAULT_PIN, puk |-> DEFAULT_PUK, others |-> FALSE]

\* The value of a token operation, None where it has none.
NoValue == [form |-> None, key |-> None, serial |-> NoSerial,
            valid |-> FALSE, retries |-> 0]

\* No token operation is under way.
NoOp ==
    [name |-> None, state |-> "idle", serial |-> NoSerial,
     pub_key_pem |-> NoPem, pin |-> None, private_key_pem |-> None,
     cand |-> <<>>, ses |-> NoSerial, step |-> 0, log |-> <<>>,
     slot |-> None, key |-> None, first |-> None, pem_pwd |-> None,
     exc |-> None,
     value |-> NoValue]

\* The pub_key_pem arguments: the key of token 1 as exported, the key of
\* token 2 without the newline at the end.
PubKeyPems == {Pem(KeyOf(1)), ButLast(Pem(KeyOf(2)))}

\* The ways a caller selects the token: by public key, by serial, or the
\* first token found.
Selections ==
    {[pub_key_pem |-> pem, serial |-> NoSerial] : pem \in PubKeyPems} \cup
    {[pub_key_pem |-> NoPem, serial |-> serial] :
        serial \in {NoSerial} \cup Serials}

\* The pin arguments of setup: a PIN of the right form, or None as
\* setup_new_yubikey passes it when no PIN is cached.
SetupPins == {"p2", None}

\* The calls of the token operations.
TokenCalls ==
    {[name |-> "is_valid_pin", pin |-> pin, pub_key_pem |-> NoPem,
      serial |-> serial, private_key_pem |-> None] :
        pin \in Pins, serial \in {NoSerial} \cup Serials} \cup
    {[name |-> name, pin |-> None, pub_key_pem |-> sel.pub_key_pem,
      serial |-> sel.serial, private_key_pem |-> None] :
        name \in {"get_serial_num", "export_piv_x509", "export_piv_pub_key",
                  "get_piv_public_key_tuf"},
        sel \in Selections} \cup
    {[name |-> "sign_piv_rsa_pkcs1v15", pin |-> pin,
      pub_key_pem |-> sel.pub_key_pem, serial |-> sel.serial,
      private_key_pem |-> None] :
        pin \in Pins, sel \in Selections} \cup
    {[name |-> "setup", pin |-> pin, pub_key_pem |-> NoPem,
      serial |-> serial, private_key_pem |-> pem] :
        pin \in SetupPins, serial \in {NoSerial} \cup Serials,
        pem \in {None} \cup PrivateKeyPems}

VARIABLES
    store,      \* the revisions of the authentication repository, oldest first
    walk,       \* the outcome of the last sorted_commits_per_repositories call
    yks,        \* _yks_data_dict[serial]: the cached pin and public_key
    ids,        \* _yks_data_dict["ids"]: key name -> serial
    inserted,   \* the serials of the tokens that are plugged in
    attempts,   \* per token, the PIN attempts left
    loaded,     \* the caller's loaded_yubikeys dict: serial -> roles
    pc,         \* where the yubikey_prompt call stands
    args,       \* the arguments of the current (or last) yubikey_prompt call
    retry_counter,
    todo,       \* serial_nums_to_check, from the candidate in hand on
    result,     \* what the last yubikey_prompt call returned
    locked,     \* the current call raised "No retries left. YubiKey locked."
    device,     \* per token, what its PIV applet holds
    conn,       \* the serials of the tokens a connection is open to
    op,         \* the token operation under way (or the last one)
    generated   \* the RSA keys rsa.generate_private_key has made so far

walkVars == <<store, walk>>

ykVars == <<yks, ids, inserted, attempts, loaded, pc, args, retry_counter,
            todo, result, locked>>

tokVars == <<device, conn, op, generated>>

vars == <<store, walk, yks, ids, inserted, attempts, loaded, pc, args,
          retry_counter, todo, result, locked, device, conn, op, generated>>

(*************************************************************************)
(* AuthenticationRepo.target_commits_at_revisions                        *)
(*************************************************************************)
\* The exception get_json raises for the root metadata, None when
\* ['signed']['targets'] yields the target paths.
RootException(outcome) ==
    CASE outcome = "unavailable" -> "CalledProcessError"
      [] outcome = "malformed"   -> "JSONDecodeError"
      [] outcome = "nosigned"    -> "KeyError"
      [] OTHER                   -> None

\* The exception get_json(...).get('commit') raises for a target descriptor.
DescException(outcome) ==
    CASE outcome = "unavailable" -> "CalledProcessError"
      [] outcome = "malformed"   -> "JSONDecodeError"
      [] outcome = "notobject"   -> "AttributeError"
      [] OTHER                   -> None

\* A bug: a descriptor without commit is stored like one with a commit.
CommitField_NoSkip(outcome) == outcome

\* .get('commit') of a descriptor that parsed to an object.
CommitField(outcome) == IF outcome \in Commits THEN outcome ELSE None

\* A bug: the inner try has no clause for JSONDecodeError.
InnerHandled_NoJson == {"CalledProcessError"}

\* The except clauses of the inner try (one target path).
InnerHandled == {"CalledProcessError", "JSONDecodeError"}

\* A bug: the outer try has no clause for JSONDecodeError.
OuterHandled_NoJson == {"CalledProcessError"}

\* The except clauses of the outer try (one revision).
OuterHandled == {"CalledProcessError", "JSONDecodeError"}

\* The loop over the target paths of one revision, from entry i on, with
\* targets[commit] as filled so far: the dict in insertion order, and the
\* exception that left the loop, if one did.
RECURSIVE TargetsLoop(_, _, _)
TargetsLoop(entries, i, dict) ==
    IF i > Len(entries) THEN [exc |-> None, dict |-> dict]
    ELSE LET e == entries[i]
             exc == DescException(e.desc)
         IN  IF exc # None
             THEN IF exc \in InnerHandled
                  THEN TargetsLoop(entries, i + 1, dict)
                  ELSE [exc |-> exc, dict |-> dict]
             ELSE IF CommitField(e.desc) = None
                  THEN TargetsLoop(entries, i + 1, dict)
                  ELSE TargetsLoop(entries, i + 1,
                           Append(dict, [path |-> e.path, commit |-> e.desc]))

\* The body of the outer try for one revision.
TargetsAtRevision(rev) ==
    IF RootException(rev.root) # None
    THEN [exc |-> RootException(rev.root), dict |-> <<>>]
    ELSE TargetsLoop(rev.targets, 1, <<>>)

\* The loop over the revisions from position i on; targets maps a revision
\* to its dict (a defaultdict: the empty dict where nothing was stored).
RECURSIVE CommitsLoop(_, _, _, _)
CommitsLoop(st, commits, i, targets) ==
    IF i > Len(commits) THEN [exc |-> None, targets |-> targets]
    ELSE LET r == TargetsAtRevision(st[commits[i]])
             stored == [targets EXCEPT ![commits[i]] = r.dict]
         IN  IF r.exc = None \/ r.exc \in OuterHandled
             THEN CommitsLoop(st, commits, i + 1, stored)
             ELSE [exc |-> r.exc, targets |-> stored]

target_commits_at_revisions(st, commits) ==
    CommitsLoop(st, commits, 1, [r \in 1..Len(st) |-> <<>>])

(*************************************************************************)
(* AuthenticationRepo.sorted_commits_per_repositories                    *)
(*************************************************************************)
\* A bug: the commit is put in front of the timeline.
AppendCommit_InFront(rc, path, commit) ==
    [p \in DOMAIN rc \cup {path} |->
        IF p = path
        THEN <<commit>> \o (IF p \in DOMAIN rc THEN rc[p] ELSE <<>>)
        ELSE rc[p]]

\* repositories_commits[target_path].append(target_commit) on a
\* defaultdict(list): the key exists once something was appended to it.
AppendCommit(rc, path, commit) ==
    [p \in DOMAIN rc \cup {path} |->
        IF p = path
        THEN Append(IF p \in DOMAIN rc THEN rc[p] ELSE <<>>, commit)
        ELSE rc[p]]

\* A bug: every target commit is appended.
ShouldAppend_Always(previous_commit, target_commit) == TRUE

\* The condition under which a target commit is appended.
ShouldAppend(previous_commit, target_commit) ==
    previous_commit = None \/ target_commit # previous_commit

\* The inner loop over targets[commit].items(), from item i on.
RECURSIVE ItemsLoop(_, _, _, _)
ItemsLoop(items, i, previous_commit, rc) ==
    IF i > Len(items) THEN rc
    ELSE ItemsLoop(items, i + 1, items[i].commit,
             IF ShouldAppend(previous_commit, items[i].commit)
             THEN AppendCommit(rc, items[i].path, items[i].commit)
             ELSE rc)

\* The outer loop over the revisions, from position i on; previous_commit
\* is set to None at the start of every revision.
RECURSIVE RevisionsLoop(_, _, _, _)
RevisionsLoop(targets, commits, i, rc) ==
    IF i > Len(commits) THEN rc
    ELSE RevisionsLoop(targets, commits, i + 1,
             ItemsLoop(targets[commits[i]], 1, None, rc))

\* The call: the exception it raises (None when it returns) and the
\* timelines it returns.
sorted_commits_per_repositories(st, commits) ==
    LET t == target_commits_at_revisions(st, commits)
    IN  IF t.exc # None
        THEN [exc |-> t.exc, value |-> <<>>]
        ELSE [exc |-> None,
              value |-> RevisionsLoop(t.targets, commits, 1, <<>>)]

\* The revision list a caller passes: every revision, oldest first.
AllRevisions(st) == [i \in 1..Len(st) |-> i]

NotWalked == [state |-> "none", exc |-> None, value |-> <<>>]

(*************************************************************************)
(* The walker's operations.                                              *)
(*************************************************************************)
WalkerInit ==
    /\ store = <<>>
    /\ walk = NotWalked

\* The module state of taf.yubikey at import, and no call under way.
YubikeyInit ==
    /\ yks = [serial \in Serials |-> [pin |-> None, public_key |-> None]]
    /\ ids = [name \in KeyNames |-> NoSerial]
    /\ attempts = [serial \in Serials |-> PinAttempts]
    /\ pc = "idle"
    /\ args = NoArgs
    /\ retry_counter = 0
    /\ todo = <<>>
    /\ result = NoResult
    /\ locked = FALSE
    /\ device = [serial \in Serials |-> Provisioned(serial)]
    /\ conn = {}
    /\ op = NoOp
    /\ generated = 0

InitWalk ==
    /\ WalkerInit
    /\ YubikeyInit
    /\ inserted = {}
    /\ loaded = <<>>

\* A commit is made to the authentication repository.
AddRevision ==
    /\ Len(store) < MaxRevs
    /\ \E rev \in Revisions : store' = Append(store, rev)
    /\ walk' = NotWalked
    /\ UNCHANGED <<ykVars, tokVars>>

\* sorted_commits_per_repositories(commits) is called on the history.
Walk ==
    /\ walk.state = "none"
    /\ LET r == sorted_commits_per_repositories(store, AllRevisions(store))
       IN  walk' = [state |-> IF r.exc = None THEN "returned" ELSE "raised",
                    exc |-> r.exc, value |-> r.value]
    /\ UNCHANGED <<store, ykVars, tokVars>>

WalkNext == AddRevision \/ Walk

SpecWalk == InitWalk /\ [][WalkNext]_vars


(*************************************************************************)
(* taf.yubikey: the registry _yks_data_dict.                             *)
(*************************************************************************)
add_key_id_mapping(i, serial_num, keyid) == [i EXCEPT ![keyid] = serial_num]

add_key_pin(d, serial_num, pin) == [d EXCEPT ![serial_num].pin = pin]

add_key_public_key(d, serial_num, public_key) ==
    [d EXCEPT ![serial_num].public_key = public_key]

get_key_pin(d, serial_num) == d[serial_num].pin

get_key_serial_by_id(i, keyid) == i[keyid]

get_key_public_key(d, serial_num) == d[serial_num].public_key

(*************************************************************************)
(* taf.yubikey: the token operations the discovery loop uses.            *)
(*************************************************************************)
\* _yk_piv_ctrl(serial=serial) yields a session: a plugged-in token has
\* that serial.  Otherwise the operation fails with YubikeyError.
SessionOpens(ins, serial) == serial \in ins

\* ctrl.verify_pin(pin) succeeds.
PinVerifies(att, serial, pin) == att[serial] > 0 /\ pin = TokenPin(serial)

\* The attempts left on the token after ctrl.verify_pin(pin).
AttemptsAfterVerify(att, serial, pin) ==
    IF PinVerifies(att, serial, pin)
    THEN [att EXCEPT ![serial] = PinAttempts]
    ELSE [att EXCEPT ![serial] = IF @ > 0 THEN @ - 1 ELSE 0]

\* A bug: every PIN is taken as valid.
is_valid_pin_AcceptsAll(att, serial, pin) == [valid |-> TRUE, retries |-> 0]

\* is_valid_pin(pin, serial) on a token that is plugged in: (valid, retries).
is_valid_pin(att, serial, pin) ==
    IF PinVerifies(att, serial, pin)
    THEN [valid |-> TRUE, retries |-> 0]
    ELSE [valid |-> FALSE, retries |-> AttemptsAfterVerify(att, serial, pin)[serial]]

\* get_all_serials(): the plugged-in tokens in the order of enumeration.
get_all_serials(ins) ==
    {q \in SeqsUpTo(ins, Cardinality(ins)) :
        /\ Len(q) = Cardinality(ins)
        /\ \A i, j \in 1..Len(q) : i # j => q[i] # q[j]}

(*************************************************************************)
(* taf.yubikey: yubikey_prompt and what it calls.                        *)
(*************************************************************************)
Roles(lst) == {lst[k] : k \in 1..Len(lst)}

\* A bug: a token that has the role is not recognised as loaded.
check_yubikey_serial_Never(serial_num, role, given, loaded_yubikeys) == TRUE

\* check_yubikey_serial: its first result (False: the key is loaded).
check_yubikey_serial(serial_num, role, given, loaded_yubikeys) ==
    ~(/\ given
      /\ serial_num \in DOMAIN loaded_yubikeys
      /\ role \in Roles(loaded_yubikeys[serial_num]))

\* public_key of _read_and_check_yubikey, for a token that is plugged in.
PublicKeyRead(a, serial_num) ==
    IF a.creating_new_key THEN None ELSE KeyOf(serial_num)

\* taf_repo.is_valid_metadata_yubikey(role, public_key)
is_valid_metadata_yubikey(taf_repo, role, public_key) ==
    public_key \in SignersOf(taf_repo)

\* A bug: the role check does not skip the candidate.
NotValidForRole_Never(a, public_key) == FALSE

\* The condition under which the candidate is skipped as not a valid key
\* of the role.
NotValidForRole(a, public_key) ==
    /\ ~a.registering_new_key
    /\ a.role # None
    /\ a.taf_repo # None
    /\ ~is_valid_metadata_yubikey(a.taf_repo, a.role, public_key)

\* A bug: handle_yubikey_pin asks for a PIN although one is cached.
NeedsPin_Always(d, serial_num) == TRUE

\* handle_yubikey_pin asks for a PIN.
NeedsPin(d, serial_num) == get_key_pin(d, serial_num) = None

\* The caller's loaded_yubikeys after "loaded_yubikeys = loaded_yubikeys or
\* {}" and setdefault(serial_num, []).append(role): an empty dict is falsy,
\* so the role goes to a new dict and the caller's stays as it is.
AppendRole(map, given, serial_num, role) ==
    IF role = None \/ ~given \/ DOMAIN map = {}
    THEN map
    ELSE [x \in DOMAIN map \cup {serial_num} |->
            IF x = serial_num
            THEN Append(IF x \in DOMAIN map THEN map[x] ELSE <<>>, role)
            ELSE map[x]]

\* The registry after the public key (and with it the key name) is cached.
CachesKey(d, serial_num, public_key) ==
    get_key_public_key(d, serial_num) = None /\ public_key # None

Given == args.loaded_yubikeys # None

\* What happens to the candidate in hand up to handle_yubikey_pin.
CandidateOutcome(serial_num) ==
    CASE ~check_yubikey_serial(serial_num, args.role, Given, loaded)
            -> "loaded"
      [] ~args.creating_new_key /\ ~SessionOpens(inserted, serial_num)
            -> "error"
      [] NotValidForRole(args, PublicKeyRead(args, serial_num))
            -> "invalid"
      [] NeedsPin(yks, serial_num)
            -> "pin"
      [] OTHER
            -> "done"

\* "continue": the next candidate of the pass.
NextCandidate ==
    /\ todo' = Tail(todo)
    /\ pc' = "candidate"

\* The rest of the loop body once the PIN is cached in d: the caches, the
\* loaded roles, and the return of (public_key, serial_num).
Done(d, serial_num) ==
    LET public_key == PublicKeyRead(args, serial_num)
    IN  /\ yks' = IF CachesKey(d, serial_num, public_key)
                  THEN add_key_public_key(d, serial_num, public_key)
                  ELSE d
        /\ ids' = IF CachesKey(d, serial_num, public_key)
                  THEN add_key_id_mapping(ids, serial_num, args.key_name)
                  ELSE ids
        /\ loaded' = AppendRole(loaded, Given, serial_num, args.role)
        /\ result' = [state |-> "found", key |-> public_key,
                      serial |-> serial_num]
        /\ pc' = "returned"
        /\ todo' = <<>>

\* yubikey_prompt(...) is called.
CallYubikeyPrompt ==
    /\ pc = "idle"
    /\ \E a \in Args : args' = a
    /\ pc' = "discover"
    /\ UNCHANGED <<yks, ids, inserted, attempts, loaded, retry_counter, todo,
                   result, locked>>
    /\ UNCHANGED <<walkVars, tokVars>>

\* serial_nums_to_check, on the first pass or once the user has pressed
\* ENTER at "Please insert ... YubiKey".
Discover ==
    /\ pc \in {"discover", "insert_prompt"}
    /\ IF args.serial # NoSerial
       THEN todo' = <<args.serial>>
       ELSE \E q \in get_all_serials(inserted) : todo' = q
    /\ pc' = "candidate"
    /\ UNCHANGED <<yks, ids, inserted, attempts, loaded, args, retry_counter,
                   result, locked>>
    /\ UNCHANGED <<walkVars, tokVars>>

\* The loop body for the candidate in hand, up to a prompt or a return.
Candidate ==
    /\ pc = "candidate"
    /\ todo # <<>>
    /\ LET serial_num == Head(todo)
           outcome == CandidateOutcome(serial_num)
       IN  \/ /\ outcome \in {"loaded", "error", "invalid"}
              /\ NextCandidate
              /\ UNCHANGED <<yks, ids, loaded, result>>
           \/ /\ outcome = "pin"
              /\ pc' = IF args.creating_new_key THEN "new_pin_prompt"
                                                ELSE "pin_prompt"
              /\ UNCHANGED <<yks, ids, loaded, result, todo>>
           \/ /\ outcome = "done"
              /\ Done(yks, serial_num)
    /\ UNCHANGED <<inserted, attempts, args, retry_counter, locked>>
    /\ UNCHANGED <<walkVars, tokVars>>

\* creating_new_key: the PIN the user chooses is cached unverified.
NewPinPrompt ==
    /\ pc = "new_pin_prompt"
    /\ \E pin \in Pins : Done(add_key_pin(yks, Head(todo), pin), Head(todo))
    /\ UNCHANGED <<inserted, attempts, args, retry_counter, locked>>
    /\ UNCHANGED <<walkVars, tokVars>>

\* get_and_validate_pin: the user types a PIN and is_valid_pin checks it.
PinPrompt ==
    /\ pc = "pin_prompt"
    /\ LET serial_num == Head(todo)
       IN  \E pin \in Pins :
             IF ~SessionOpens(inserted, serial_num)
             THEN \* YubikeyError, caught by the loop body
                  /\ NextCandidate
                  /\ UNCHANGED <<yks, ids, loaded, result, attempts, locked>>
             ELSE LET r == is_valid_pin(attempts, serial_num, pin)
                  IN  /\ attempts' = AttemptsAfterVerify(attempts, serial_num, pin)
                      /\ IF r.valid
                         THEN /\ Done(add_key_pin(yks, serial_num, pin), serial_num)
                              /\ UNCHANGED locked
                         ELSE IF r.retries = 0
                         THEN \* InvalidPINError("No retries left. YubiKey
                              \* locked."), caught by the loop body
                              /\ locked' = TRUE
                              /\ NextCandidate
                              /\ UNCHANGED <<yks, ids, loaded, result>>
                         ELSE /\ pc' = "confirm"
                              /\ UNCHANGED <<yks, ids, loaded, result, todo,
                                             locked>>
    /\ UNCHANGED <<inserted, args, retry_counter>>
    /\ UNCHANGED <<walkVars, tokVars>>

\* click.confirm("Incorrect PIN. Do you want to try again? ..."): yes asks
\* again, no raises InvalidPINError("PIN input cancelled"), caught by the
\* loop body.
Confirm ==
    /\ pc = "confirm"
    /\ \/ /\ pc' = "pin_prompt"
          /\ UNCHANGED todo
       \/ NextCandidate
    /\ UNCHANGED <<yks, ids, inserted, attempts, loaded, args, retry_counter,
                   result, locked>>
    /\ UNCHANGED <<walkVars, tokVars>>

\* A bug: the call raises when a pass without retry finds no token.
EndOfPass_Raises ==
    /\ pc = "candidate"
    /\ todo = <<>>
    /\ IF ~args.retry_on_failure
       THEN /\ result' = [state |-> "raised", key |-> None,
                          serial |-> NoSerial]
            /\ pc' = "returned"
            /\ UNCHANGED retry_counter
       ELSE /\ retry_counter < MaxRetries
            /\ retry_counter' = retry_counter + 1
            /\ pc' = "insert_prompt"
            /\ UNCHANGED result
    /\ UNCHANGED <<yks, ids, inserted, attempts, loaded, args, todo, locked>>
    /\ UNCHANGED <<walkVars, tokVars>>

\* A bug: a retrying call gives up after its second pass.
EndOfPass_GivesUp ==
    /\ pc = "candidate"
    /\ todo = <<>>
    /\ IF ~args.retry_on_failure \/ retry_counter > 0
       THEN /\ result' = [state |-> "notfound", key |-> None,
                          serial |-> NoSerial]
            /\ pc' = "returned"
            /\ UNCHANGED retry_counter
       ELSE /\ retry_counter < MaxRetries
            /\ retry_counter' = retry_counter + 1
            /\ pc' = "insert_prompt"
            /\ UNCHANGED result
    /\ UNCHANGED <<yks, ids, inserted, attempts, loaded, args, todo, locked>>
    /\ UNCHANGED <<walkVars, tokVars>>

\* No candidate is left: _read_and_check_yubikey returns (False, None,
\* None), and yubikey_prompt returns (None, None) or retries.
EndOfPass ==
    /\ pc = "candidate"
    /\ todo = <<>>
    /\ IF ~args.retry_on_failure
       THEN /\ result' = [state |-> "notfound", key |-> None,
                          serial |-> NoSerial]
            /\ pc' = "returned"
            /\ UNCHANGED retry_counter
       ELSE /\ retry_counter < MaxRetries
            /\ retry_counter' = retry_counter + 1
            /\ pc' = "insert_prompt"
            /\ UNCHANGED result
    /\ UNCHANGED <<yks, ids, inserted, attempts, loaded, args, todo, locked>>
    /\ UNCHANGED <<walkVars, tokVars>>

\* The caller has the return value; the frame of the call is gone.
Return ==
    /\ pc = "returned"
    /\ pc' = "idle"
    /\ args' = NoArgs
    /\ retry_counter' = 0
    /\ result' = NoResult
    /\ locked' = FALSE
    /\ UNCHANGED <<yks, ids, inserted, attempts, loaded, todo>>
    /\ UNCHANGED <<walkVars, tokVars>>

\* The steps of a yubikey_prompt call.
DiscoveryNext ==
    \/ CallYubikeyPrompt
    \/ Discover
    \/ Candidate
    \/ NewPinPrompt
    \/ PinPrompt
    \/ Confirm
    \/ EndOfPass
    \/ Return

\* The program waits for the user, or no call is under way.
Waiting == pc \in {"idle", "insert_prompt", "pin_prompt", "new_pin_prompt",
                   "confirm"}

\* The user plugs a token in or pulls one out.
Insert ==
    /\ Waiting
    /\ \E serial \in Serials \ inserted : inserted' = inserted \cup {serial}
    /\ UNCHANGED <<yks, ids, attempts, loaded, pc, args, retry_counter, todo,
                   result, locked>>
    /\ UNCHANGED <<walkVars, tokVars>>

Remove ==
    /\ Waiting
    /\ \E serial \in inserted : inserted' = inserted \ {serial}
    /\ UNCHANGED <<yks, ids, attempts, loaded, pc, args, retry_counter, todo,
                   result, locked>>
    /\ UNCHANGED <<walkVars, tokVars>>

\* Other code of the process calls the registry between two prompts.
AddKeyPin ==
    /\ pc = "idle"
    /\ \E serial \in Serials, pin \in Pins : yks' = add_key_pin(yks, serial, pin)
    /\ UNCHANGED <<ids, inserted, attempts, loaded, pc, args, retry_counter,
                   todo, result, locked>>
    /\ UNCHANGED <<walkVars, tokVars>>

AddKeyPublicKey ==
    /\ pc = "idle"
    /\ \E serial \in Serials :
          yks' = add_key_public_key(yks, serial, KeyOf(serial))
    /\ UNCHANGED <<ids, inserted, attempts, loaded, pc, args, retry_counter,
                   todo, result, locked>>
    /\ UNCHANGED <<walkVars, tokVars>>

AddKeyIdMapping ==
    /\ pc = "idle"
    /\ \E serial \in Serials, name \in KeyNames :
          ids' = add_key_id_mapping(ids, serial, name)
    /\ UNCHANGED <<yks, inserted, attempts, loaded, pc, args, retry_counter,
                   todo, result, locked>>
    /\ UNCHANGED <<walkVars, tokVars>>

\* The caller's loaded_yubikeys when the first call is made.
LoadedAtStart == {<<>>, [serial \in {1} |-> <<Role>>]}

\* The discovery loop while tokens are plugged in and pulled out.
Init ==
    /\ WalkerInit
    /\ YubikeyInit
    /\ inserted \in SUBSET Serials
    /\ loaded \in LoadedAtStart

Next ==
    \/ CallYubikeyPrompt
    \/ Discover
    \/ Candidate
    \/ NewPinPrompt
    \/ PinPrompt
    \/ Confirm
    \/ EndOfPass
    \/ Return
    \/ Insert
    \/ Remove

Spec == Init /\ [][Next]_vars

\* The discovery loop and the registry's setters, with every token plugged
\* in throughout.
InitRegistry ==
    /\ WalkerInit
    /\ YubikeyInit
    /\ inserted = Serials
    /\ loaded \in LoadedAtStart

RegistryNext ==
    \/ CallYubikeyPrompt
    \/ Discover
    \/ Candidate
    \/ NewPinPrompt
    \/ PinPrompt
    \/ Confirm
    \/ EndOfPass
    \/ Return
    \/ AddKeyPin
    \/ AddKeyPublicKey
    \/ AddKeyIdMapping

SpecRegistry == InitRegistry /\ [][RegistryNext]_vars

(*************************************************************************)
(* taf.yubikey: the token operations, each inside _yk_piv_ctrl and       *)
(* raise_yubikey_err.                                                    *)
(*************************************************************************)
\* A bug: the decorator lets the errors of contextlib through.
raise_yubikey_err_NotAll(exc) ==
    IF exc = "RuntimeError" THEN exc ELSE "YubikeyError"

\* raise_yubikey_err: the exception that leaves the decorated function
\* when exc leaves its body.
raise_yubikey_err(exc) ==
    IF exc = "YubikeyError" THEN exc ELSE "YubikeyError"

\* A bug: the connection stays open.
CloseConnection_Leaks(c, serial) == c

\* The end of "with dev.open_connection(SmartCardConnection)".
CloseConnection(c, serial) == c \ {serial}

\* device_pub_key_pem == pub_key_pem or device_pub_key_pem[:-1] == pub_key_pem
PemMatches(device_pub_key_pem, pub_key_pem) ==
    \/ device_pub_key_pem = pub_key_pem
    \/ ButLast(device_pub_key_pem) = pub_key_pem

\* The first device of the enumeration that "serial is None or info.serial
\* == serial" accepts, NoSerial when there is none.
RECURSIVE FirstWithSerial(_, _)
FirstWithSerial(devices, serial) ==
    IF devices = <<>> THEN NoSerial
    ELSE IF serial = NoSerial \/ Head(devices) = serial THEN Head(devices)
    ELSE FirstWithSerial(Tail(devices), serial)

\* ctrl.verify_pin(pin) succeeds on the token.
VerifyPin(dev, att, serial, pin) ==
    att[serial] > 0 /\ pin = dev[serial].pin

\* The PIN attempts left after ctrl.verify_pin(pin).
AttemptsAfter(dev, att, serial, pin) ==
    IF VerifyPin(dev, att, serial, pin)
    THEN [att EXCEPT ![serial] = PinAttempts]
    ELSE [att EXCEPT ![serial] = IF @ > 0 THEN @ - 1 ELSE 0]

\* The operation ends with an exception: the with block closes the
\* connection and the decorator turns the exception into YubikeyError.
Raises(exc) ==
    /\ op' = [op EXCEPT !.state = "raised", !.exc = raise_yubikey_err(exc)]
    /\ conn' = IF op.ses = NoSerial THEN conn
               ELSE CloseConnection(conn, op.ses)

\* The operation returns a value from inside the with block.
Returns(value, log) ==
    /\ op' = [op EXCEPT !.state = "returned", !.value = value, !.log = log]
    /\ conn' = CloseConnection(conn, op.ses)

\* A token operation is called; list_all_devices() enumerates the tokens
\* that are plugged in.
CallTokenOperation ==
    /\ pc = "idle"
    /\ op.state = "idle"
    /\ \E call \in TokenCalls, devices \in get_all_serials(inserted) :
         /\ (call.name = "setup" /\ call.private_key_pem = None)
                => generated < MaxKeys
         /\ op' = [NoOp EXCEPT !.name = call.name, !.pin = call.pin,
                               !.pub_key_pem = call.pub_key_pem,
                               !.serial = call.serial,
                               !.private_key_pem = call.private_key_pem,
                               !.cand = devices, !.state = "search"]
    /\ UNCHANGED <<device, conn, generated>>
    /\ UNCHANGED <<walkVars, ykVars>>

\* _yk_piv_ctrl: the next device of the enumeration.  With pub_key_pem a
\* connection is opened to every device in turn; without, to the first
\* device of the wanted serial.  When the devices run out the generator
\* ends without a yield, which contextlib reports as RuntimeError.
OpenConnection ==
    /\ op.state = "search"
    /\ IF op.pub_key_pem # NoPem
       THEN IF op.cand = <<>>
            THEN Raises("RuntimeError")
            ELSE /\ conn' = conn \cup {Head(op.cand)}
                 /\ op' = [op EXCEPT !.state = "opened"]
       ELSE LET serial_num == FirstWithSerial(op.cand, op.serial)
            IN  IF serial_num = NoSerial
                THEN Raises("RuntimeError")
                ELSE /\ conn' = conn \cup {serial_num}
                     /\ op' = [op EXCEPT !.state = "body", !.ses = serial_num,
                                         !.step = 1]
    /\ UNCHANGED <<device, generated>>
    /\ UNCHANGED <<walkVars, ykVars>>

\* _yk_piv_ctrl with pub_key_pem: the certificate of the device in hand is
\* read and its public key compared.
CompareKey ==
    /\ op.state = "opened"
    /\ LET serial_num == Head(op.cand)
       IN  IF device[serial_num].cert = None
           THEN \* get_certificate raises on the empty slot
                /\ op' = [op EXCEPT !.state = "raised",
                                    !.exc = raise_yubikey_err("ApduError")]
                /\ conn' = CloseConnection(conn, serial_num)
           ELSE IF PemMatches(Pem(device[serial_num].cert), op.pub_key_pem)
           THEN /\ op' = [op EXCEPT !.state = "body", !.ses = serial_num,
                                    !.step = 1]
                /\ UNCHANGED conn
           ELSE /\ op' = [op EXCEPT !.state = "search", !.cand = Tail(@)]
                /\ conn' = CloseConnection(conn, serial_num)
    /\ UNCHANGED <<device, generated>>
    /\ UNCHANGED <<walkVars, ykVars>>

\* The state of taf.yubikey that no token operation writes.
promptVars == <<yks, ids, inserted, loaded, pc, args, retry_counter, todo,
                result, locked>>

\* is_valid_pin: (True, None), or (False, attempts left) on InvalidPinError.
IsValidPin ==
    /\ op.state = "body"
    /\ op.name = "is_valid_pin"
    /\ attempts' = AttemptsAfter(device, attempts, op.ses, op.pin)
    /\ Returns([NoValue EXCEPT
                   !.form = "tuple",
                   !.valid = VerifyPin(device, attempts, op.ses, op.pin),
                   !.retries = IF VerifyPin(device, attempts, op.ses, op.pin)
                               THEN 0 ELSE attempts'[op.ses]],
               <<"verify_pin">>)
    /\ UNCHANGED <<device, generated>>
    /\ UNCHANGED <<walkVars, promptVars>>

\* get_serial_num: the serial of the session.
GetSerialNum ==
    /\ op.state = "body"
    /\ op.name = "get_serial_num"
    /\ Returns([NoValue EXCEPT !.form = "serial", !.serial = op.ses], <<>>)
    /\ UNCHANGED <<device, generated>>
    /\ UNCHANGED <<walkVars, ykVars>>

\* The format in which an export returns the certificate or its key.
ExportForm(name) ==
    CASE name = "export_piv_x509"        -> "x509"
      [] name = "export_piv_pub_key"     -> "pem"
      [] name = "get_piv_public_key_tuf" -> "tuf"

\* export_piv_x509, export_piv_pub_key and get_piv_public_key_tuf (which
\* calls export_piv_pub_key and converts): the certificate of the
\* SIGNATURE slot is read; get_certificate raises when the slot is empty.
Export ==
    /\ op.state = "body"
    /\ op.name \in {"export_piv_x509", "export_piv_pub_key",
                    "get_piv_public_key_tuf"}
    /\ IF device[op.ses].cert = None
       THEN Raises("ApduError")
       ELSE Returns([NoValue EXCEPT !.form = ExportForm(op.name),
                                    !.key = device[op.ses].cert],
                    <<"get_certificate">>)
    /\ UNCHANGED <<device, generated>>
    /\ UNCHANGED <<walkVars, ykVars>>

\* A bug: the signature is made before the PIN is verified.
SignSteps_SignFirst == <<"sign", "verify_pin">>

\* The calls sign_piv_rsa_pkcs1v15 makes on the session, in order.
SignSteps == <<"verify_pin", "sign">>

\* sign_piv_rsa_pkcs1v15, one call on the session at a time: verify_pin
\* raises InvalidPinError on a wrong PIN, sign raises when the slot holds
\* no key.
Sign ==
    /\ op.state = "body"
    /\ op.name = "sign_piv_rsa_pkcs1v15"
    /\ LET call == SignSteps[op.step]
           log == Append(op.log, call)
           value == IF "sign" \in {log[i] : i \in 1..Len(log)}
                    THEN [NoValue EXCEPT !.form = "signature",
                                         !.key = device[op.ses].key]
                    ELSE op.value
       IN  /\ attempts' = IF call = "verify_pin"
                          THEN AttemptsAfter(device, attempts, op.ses, op.pin)
                          ELSE attempts
           /\ IF call = "verify_pin"
                 /\ ~VerifyPin(device, attempts, op.ses, op.pin)
              THEN Raises("InvalidPinError")
              ELSE IF call = "sign" /\ device[op.ses].key = None
              THEN Raises("ApduError")
              ELSE IF op.step = Len(SignSteps)
              THEN Returns(value, log)
              ELSE /\ op' = [op EXCEPT !.step = @ + 1, !.log = log,
                                       !.value = value]
                   /\ UNCHANGED conn
    /\ UNCHANGED <<device, generated>>
    /\ UNCHANGED <<walkVars, promptVars>>

\* A bug: the PIN and the PUK are changed before the key is written.
SetupSteps_PinFirst ==
    <<"reset", "authenticate_default", "set_management_key", "select_slot",
      "set_pin_attempts", "change_pin", "change_puk", "put_key",
      "authenticate", "verify_pin", "put_certificate">>

\* The calls setup makes on the session, in order.
SetupSteps ==
    <<"reset", "authenticate_default", "set_management_key", "select_slot",
      "put_key", "authenticate", "verify_pin", "put_certificate",
      "set_pin_attempts", "change_pin", "change_puk">>

\* A bug: the SIGNATURE slot is not tried.
AvailableSlot_Second(d) == IF ~d.others THEN "AUTHENTICATION" ELSE None

\* The first slot of the list whose certificate cannot be read, None when
\* every slot holds one.
AvailableSlot(d) ==
    IF d.cert = None THEN "SIGNATURE"
    ELSE IF ~d.others THEN "AUTHENTICATION"
    ELSE None

\* The private key setup writes: generated, or loaded from private_key_pem.
PrivateKey(o, n) ==
    IF o.private_key_pem = None THEN GeneratedKey(n + 1)
                                ELSE o.private_key_pem

\* The exception a call of setup raises on the token d, None when it
\* succeeds.
SetupException(call, d, att, o) ==
    CASE call = "authenticate_default" /\ d.mgm # DEFAULT_MANAGEMENT_KEY
            -> "ApduError"
      [] call = "select_slot" /\ AvailableSlot(d) = None
            -> "YubikeyError"
      [] call = "authenticate" /\ d.mgm # MgmKey
            -> "ApduError"
      [] call = "verify_pin" /\ ~(att > 0 /\ d.pin = DEFAULT_PIN)
            -> "InvalidPinError"
      [] call = "change_pin" /\ (d.pin # DEFAULT_PIN \/ o.pin = None)
            -> "InvalidPinError"
      [] call = "change_puk" /\ (d.puk # DEFAULT_PUK \/ o.pin = None)
            -> "InvalidPinError"
      [] OTHER
            -> None

\* A bug: setup does not reset the token.
SetupEffect_NoReset(call, d, o, n) ==
    CASE call = "set_management_key"
            -> [d EXCEPT !.mgm = MgmKey]
      [] call = "put_key" /\ o.slot = "SIGNATURE"
            -> [d EXCEPT !.key = PrivateKey(o, n)]
      [] call = "put_certificate" /\ o.slot = "SIGNATURE"
            -> [d EXCEPT !.cert = o.key]
      [] call = "set_pin_attempts"
            -> [d EXCEPT !.pin = DEFAULT_PIN, !.puk = DEFAULT_PUK]
      [] call = "change_pin"
            -> [d EXCEPT !.pin = o.pin]
      [] call = "change_puk"
            -> [d EXCEPT !.puk = o.pin]
      [] OTHER
            -> d

\* The token d after a call of setup that succeeds; n keys were generated
\* before.
SetupEffect(call, d, o, n) ==
    CASE call = "reset"
            -> FactoryState
      [] call = "set_management_key"
            -> [d EXCEPT !.mgm = MgmKey]
      [] call = "put_key" /\ o.slot = "SIGNATURE"
            -> [d EXCEPT !.key = PrivateKey(o, n)]
      [] call = "put_certificate" /\ o.slot = "SIGNATURE"
            -> [d EXCEPT !.cert = o.key]
      [] call = "set_pin_attempts"
            -> [d EXCEPT !.pin = DEFAULT_PIN, !.puk = DEFAULT_PUK]
      [] call = "change_pin"
            -> [d EXCEPT !.pin = o.pin]
      [] call = "change_puk"
            -> [d EXCEPT !.puk = o.pin]
      [] OTHER
            -> d

\* The token is as a setup that completed leaves it: key and certificate
\* in the SIGNATURE slot, PIN, PUK and management key not the defaults.
Completed(d) ==
    /\ d.key # None
    /\ d.cert = d.key
    /\ d.mgm # DEFAULT_MANAGEMENT_KEY
    /\ d.pin # DEFAULT_PIN
    /\ d.puk # DEFAULT_PUK

\* What setup keeps of a call that succeeded: the slot, the key; first is
\* the public key the setup that completed before this one returned, None
\* when the token is not as such a setup leaves it.
SetupLocals(call, d, o, n) ==
    CASE call = "reset"
            -> [o EXCEPT !.first = IF Completed(d) THEN d.cert ELSE None]
      [] call = "select_slot" -> [o EXCEPT !.slot = AvailableSlot(d)]
      [] call = "put_key"     -> [o EXCEPT !.key = PrivateKey(o, n)]
      [] OTHER                -> o

\* A bug: a call that fails is passed over, as in the slot selection.
FailureRaises_Never(call) == FALSE

\* A failure of the call leaves setup: only the reads of the slot
\* selection have a try of their own.
FailureRaises(call) == call # "select_slot"

\* setup has selected the slot and is given an encrypted PEM it has not
\* the password of yet.
NeedsPemPassword ==
    /\ op.state = "body"
    /\ op.name = "setup"
    /\ SetupSteps[op.step] = "put_key"
    /\ Encrypted(op.private_key_pem)
    /\ op.pem_pwd = None

\* load_pem_private_key raises TypeError: getpass("Enter pem file
\* password:") blocks, inside the with block of setup.
LoadPemPrivateKey ==
    /\ NeedsPemPassword
    /\ op' = [op EXCEPT !.state = "password_prompt"]
    /\ UNCHANGED <<device, conn, generated>>
    /\ UNCHANGED <<walkVars, ykVars>>

\* The user types the password: the key is loaded with it, or
\* load_pem_private_key raises ValueError on a wrong one.
PemPassword ==
    /\ op.state = "password_prompt"
    /\ \/ /\ op' = [op EXCEPT !.state = "body", !.pem_pwd = "right"]
          /\ UNCHANGED conn
       \/ Raises("ValueError")
    /\ UNCHANGED <<device, generated>>
    /\ UNCHANGED <<walkVars, ykVars>>

\* setup, one call on the session at a time.  Every call may fail on the
\* transport (the token is pulled out, the card does not answer) besides
\* failing for the state of the token.
SetupStep ==
    /\ op.state = "body"
    /\ op.name = "setup"
    /\ ~NeedsPemPassword
    /\ LET call == SetupSteps[op.step]
           d == device[op.ses]
           exc == SetupException(call, d, attempts[op.ses], op)
           after == SetupEffect(call, d, op, generated)
           o == [SetupLocals(call, d, op, generated) EXCEPT
                    !.log = Append(@, call), !.step = @ + 1]
       IN  \/ \* the call fails
              /\ exc # None \/ call # "select_slot"
              /\ IF FailureRaises(call) \/ exc = "YubikeyError"
                 THEN /\ Raises(IF exc # None THEN exc ELSE "ApduError")
                      /\ UNCHANGED <<device, attempts, generated>>
                 ELSE /\ op' = [op EXCEPT !.step = @ + 1]
                      /\ op.step < Len(SetupSteps)
                      /\ UNCHANGED <<device, attempts, generated, conn>>
           \/ \* the call succeeds
              /\ exc = None
              /\ generated' = IF call = "put_key" /\ op.private_key_pem = None
                              THEN generated + 1 ELSE generated
              /\ attempts' = IF call \in {"reset", "verify_pin",
                                          "set_pin_attempts"}
                             THEN [attempts EXCEPT ![op.ses] = PinAttempts]
                             ELSE attempts
              /\ IF op.step < Len(SetupSteps)
                 THEN /\ device' = [device EXCEPT ![op.ses] = after]
                      /\ op' = o
                      /\ UNCHANGED conn
                 ELSE \* the public key is returned
                      /\ device' = [device EXCEPT ![op.ses] = after]
                      /\ op' = [o EXCEPT !.state = "returned",
                                         !.value = [NoValue EXCEPT
                                                       !.form = "pem",
                                                       !.key = o.key]]
                      /\ conn' = CloseConnection(conn, op.ses)
    /\ UNCHANGED <<walkVars, promptVars>>

\* The caller has the value or the exception.
TokenReturn ==
    /\ op.state \in {"returned", "raised"}
    /\ op' = NoOp
    /\ UNCHANGED <<device, conn, generated>>
    /\ UNCHANGED <<walkVars, ykVars>>

\* The token operations, called one after the other on the tokens that
\* are plugged in.
InitToken ==
    /\ WalkerInit
    /\ YubikeyInit
    /\ inserted \in SUBSET Serials
    /\ loaded = <<>>

TokenNext ==
    \/ CallTokenOperation
    \/ OpenConnection
    \/ CompareKey
    \/ IsValidPin
    \/ GetSerialNum
    \/ Export
    \/ Sign
    \/ LoadPemPrivateKey
    \/ PemPassword
    \/ SetupStep
    \/ TokenReturn

SpecToken == InitToken /\ [][TokenNext]_vars

(*************************************************************************)
(* Properties of the walk.                                               *)
(*************************************************************************)
Walked == walk.state # "none"
Returned == walk.state = "returned"

\* The timeline of a path in a result, empty when the path is no key.
Timeline(value, p) == IF p \in DOMAIN value THEN value[p] ELSE <<>>

SameOutcome(r) == walk.exc = r.exc /\ walk.value = r.value

\* The root metadata of the revision is unavailable or not valid JSON.
RootFails(rev) == rev.root \in {"unavailable", "malformed"}

\* The revision has a fault of another kind than unavailable or invalid
\* JSON: no signed.targets, or a descriptor that is not an object.
StructuralFault(rev) ==
    \/ rev.root = "nosigned"
    \/ \E k \in 1..Len(rev.targets) : rev.targets[k].desc = "notobject"

\* The revision list without the revisions whose root metadata fails.
GoodRevisions(st) ==
    SelectSeq(AllRevisions(st), LAMBDA i : ~RootFails(st[i]))

\* C1: when the root metadata of some revisions is unavailable or not
\* valid JSON (and no revision has a fault of another kind), the call
\* returns, and returns what it returns for the list without them.
C1_RootFailureSkipsRevision ==
    (Walked /\ \A i \in 1..Len(store) : ~StructuralFault(store[i]))
        => /\ Returned
           /\ walk.value =
                 sorted_commits_per_repositories(store, GoodRevisions(store)).value

\* A failing revision before and after a revision that contributes.
C1_Witness ==
    /\ Returned
    /\ Len(store) = 2
    /\ store[1].root = "malformed"
    /\ store[2] = [root |-> "ok", targets |-> <<[path |-> "A", desc |-> "c1"]>>]
    /\ walk.value = [p \in {"A"} |-> <<"c1">>]

\* Every revision declares path A alone, with a commit.
OnlyPathA ==
    \A i \in 1..Len(store) :
        /\ store[i].root = "ok"
        /\ Len(store[i].targets) = 1
        /\ store[i].targets[1].path = "A"
        /\ store[i].targets[1].desc \in Commits

NoConsecutiveDuplicate(s) == \A k \in 1..(Len(s) - 1) : s[k] # s[k + 1]

\* C2: for a path observed alone, the timeline has no two consecutive
\* equal commits across revisions.
C2_NoConsecutiveDuplicateAcrossRevisions ==
    (Returned /\ OnlyPathA) => NoConsecutiveDuplicate(Timeline(walk.value, "A"))

\* The entries of a revision that have a commit, in document order.
WithCommit(rev) == SelectSeq(rev.targets, LAMBDA e : e.desc \in Commits)

\* What the revision adds to the timeline of p: the commit of p when p is
\* the first entry with a commit or its commit differs from that of the
\* entry with a commit right before it.
Contribution(rev, p) ==
    LET items == WithCommit(rev)
        at == {k \in 1..Len(items) :
                 /\ items[k].path = p
                 /\ (k = 1 \/ items[k].desc # items[k - 1].desc)}
    IN  IF at = {} THEN <<>> ELSE <<items[CHOOSE k \in at : TRUE].desc>>

RECURSIVE Contributions(_, _, _)
Contributions(st, p, n) ==
    IF n = 0 THEN <<>>
    ELSE Contributions(st, p, n - 1) \o Contribution(st[n], p)

\* C3: a path's commit is appended iff it is the first path with a commit
\* in the revision or differs from the commit of the path right before it
\* in the same revision.
C3_ComparedWithPrecedingPath ==
    Returned =>
        \A p \in Paths :
            /\ Timeline(walk.value, p) = Contributions(store, p, Len(store))
            /\ p \in DOMAIN walk.value <=> Contributions(store, p, Len(store)) # <<>>

\* The revision {A: c1, B: c1}: c1 is appended to A and nothing to B.
C3_Witness ==
    /\ Returned
    /\ store = <<[root |-> "ok",
                  targets |-> <<[path |-> "A", desc |-> "c1"],
                                [path |-> "B", desc |-> "c1"]>>]>>
    /\ walk.value = [p \in {"A"} |-> <<"c1">>]

\* The store without the entries chosen by drop.
Without(st, drop(_)) ==
    [i \in 1..Len(st) |->
        [st[i] EXCEPT !.targets = SelectSeq(@, LAMBDA e : ~drop(e))]]

HasNoCommit(e) == e.desc = "nocommit"
DescFails(e) == e.desc \in {"unavailable", "malformed"}

\* C4: a descriptor without commit changes nothing: the call ends as it
\* does without that entry, and every key of the result has a commit at
\* some revision.
C4_NoCommitFieldIsSkipped ==
    Walked =>
        /\ SameOutcome(sorted_commits_per_repositories(
               Without(store, HasNoCommit), AllRevisions(store)))
        /\ \A p \in DOMAIN walk.value :
               \E i \in 1..Len(store) : \E k \in 1..Len(store[i].targets) :
                   /\ store[i].targets[k].path = p
                   /\ store[i].targets[k].desc \in Commits

\* A path without commit at every revision, beside a sibling with one.
C4_Witness ==
    /\ Returned
    /\ Len(store) = 2
    /\ \A i \in 1..2 :
          store[i] = [root |-> "ok",
                      targets |-> <<[path |-> "A", desc |-> "nocommit"],
                                    [path |-> "B", desc |-> "c1"]>>]
    /\ DOMAIN walk.value = {"B"}

\* C5: a descriptor that is unavailable or not valid JSON skips that path
\* alone: the call ends as it does without that entry.
C5_DescriptorFailureSkipsPath ==
    Walked =>
        SameOutcome(sorted_commits_per_repositories(
            Without(store, DescFails), AllRevisions(store)))

\* A failing descriptor before a sibling that still contributes.
C5_Witness ==
    /\ Returned
    /\ store = <<[root |-> "ok",
                  targets |-> <<[path |-> "A", desc |-> "malformed"],
                                [path |-> "B", desc |-> "c1"]>>]>>
    /\ walk.value = [p \in {"B"} |-> <<"c1">>]


(*************************************************************************)
(* Properties of the discovery loop and the registry.                    *)
(*************************************************************************)
Prompting == pc \in {"insert_prompt", "pin_prompt", "new_pin_prompt", "confirm"}

Found == pc = "returned" /\ result.state = "found"

\* C6: once a wrong PIN left the token with 0 attempts (retry enabled, not
\* creating a new key), the call raises the lock-out to its caller: it
\* prompts for nothing more and does not return a result.
C6_LockOutIsFatal ==
    (locked /\ args.retry_on_failure /\ ~args.creating_new_key)
        => /\ ~Prompting
           /\ pc = "returned" => result.state = "raised"

\* Every cached PIN is still the cached PIN after the step.
PinsKept ==
    \A serial \in Serials :
        get_key_pin(yks, serial) # None
            => get_key_pin(yks', serial) = get_key_pin(yks, serial)

\* C7 as stated: no operation, add_key_pin included, replaces a cached PIN.
C7_PinNeverOverwritten == [][PinsKept]_vars

\* C7, amended: the discovery loop, add_key_public_key and
\* add_key_id_mapping never replace a cached PIN (add_key_pin does).
C7_PinKeptByDiscovery ==
    [][(DiscoveryNext \/ AddKeyPublicKey \/ AddKeyIdMapping) => PinsKept]_vars

\* A call that verifies PINs returned a token whose cached PIN is not the
\* token's PIN: the PIN was cached before the call and the call kept it.
C7_Witness ==
    /\ Found
    /\ ~args.creating_new_key
    /\ get_key_pin(yks, result.serial) = "p2"

\* The candidate in hand is plugged in and its key is no signer of the
\* requested role in the given repository.
CandidateNotAuthorized ==
    /\ pc = "candidate"
    /\ todo # <<>>
    /\ args.role # None
    /\ args.taf_repo # None
    /\ ~args.registering_new_key
    /\ ~args.creating_new_key
    /\ Head(todo) \in inserted
    /\ KeyOf(Head(todo)) \notin SignersOf(args.taf_repo)

\* The step goes on to the next candidate of the pass and changes neither
\* the registry nor the loaded roles nor the token.
CandidateSkipped ==
    /\ pc' = "candidate"
    /\ todo' = Tail(todo)
    /\ UNCHANGED <<yks, ids, loaded, attempts, retry_counter, result>>

\* C8: a candidate whose key is not authorized for the role is skipped:
\* nothing is cached or loaded for it, no PIN is asked, and the pass goes
\* on with the candidates that remain.
C8_UnauthorizedTokenSkipped == [][CandidateNotAuthorized => CandidateSkipped]_vars

\* On the first pass over both tokens, token 2 (not a signer, its PIN
\* cached, so that nothing was asked for it) has been passed over and
\* token 1 is in hand.
C8_Witness ==
    /\ pc = "candidate"
    /\ retry_counter = 0
    /\ args.serial = NoSerial
    /\ inserted = Serials
    /\ todo = <<1>>
    /\ args.role # None /\ args.taf_repo # None
    /\ ~args.registering_new_key /\ ~args.creating_new_key
    /\ args.loaded_yubikeys = None
    /\ get_key_pin(yks, 2) # None
    /\ get_key_public_key(yks, 2) = None

\* C9: a successful call with a role and the caller's map leaves the role
\* in the caller's map, in the entry of the returned serial.
C9_RoleInCallersMap ==
    (Found /\ args.role # None /\ args.loaded_yubikeys = "shared")
        => /\ result.serial \in DOMAIN loaded
           /\ args.role \in Roles(loaded[result.serial])

\* No role is in the entries of two serials.
RoleOfOneSerial ==
    \A s1, s2 \in DOMAIN loaded :
        s1 # s2 => Roles(loaded[s1]) \cap Roles(loaded[s2]) = {}

\* No entry lists a role twice.
NoRoleTwice ==
    \A serial \in DOMAIN loaded :
        \A i, j \in 1..Len(loaded[serial]) :
            i # j => loaded[serial][i] # loaded[serial][j]

\* The candidate in hand has the requested role in the caller's map.
CandidateLoaded ==
    /\ pc = "candidate"
    /\ todo # <<>>
    /\ args.loaded_yubikeys = "shared"
    /\ Head(todo) \in DOMAIN loaded
    /\ args.role \in Roles(loaded[Head(todo)])

\* C10 as stated: no role is bound to two serials, and a token that has
\* the requested role is skipped without a PIN prompt.
C10_RoleBoundToOneSerial ==
    []RoleOfOneSerial /\ [][CandidateLoaded => CandidateSkipped]_vars

\* C10, amended: no serial is bound to a role twice, and a token that has
\* the requested role is skipped without a PIN prompt.
C10_TokenBoundOnce ==
    []NoRoleTwice /\ [][CandidateLoaded => CandidateSkipped]_vars

\* On the first pass over both tokens, token 1, which has the role, has
\* been passed over and token 2 is in hand.
C10_Witness ==
    /\ pc = "candidate"
    /\ retry_counter = 0
    /\ args.serial = NoSerial
    /\ inserted = Serials
    /\ todo = <<2>>
    /\ args.loaded_yubikeys = "shared"
    /\ 1 \in DOMAIN loaded
    /\ args.role \in Roles(loaded[1])
    /\ get_key_pin(yks, 1) = None


\* The pass in hand has no candidate left.
PassEnds == pc = "candidate" /\ todo = <<>>

\* The return value (None, None).
NotFound == [state |-> "notfound", key |-> None, serial |-> NoSerial]

\* A call without retry stays in its first pass and never shows the
\* insertion prompt; what it returns is a token or (None, None).
OnePassOnly ==
    ~args.retry_on_failure
        => /\ retry_counter = 0
           /\ pc # "insert_prompt"
           /\ pc = "returned" => result.state \in {"found", "notfound"}

\* C11: without retry_on_failure there is one discovery pass and no
\* insertion prompt, and a pass that ends without a usable candidate
\* returns (None, None) instead of raising.
C11_OnePassThenNotFound ==
    /\ []OnePassOnly
    /\ [][(PassEnds /\ ~args.retry_on_failure)
            => (pc' = "returned" /\ result' = NotFound)]_vars

\* A call without retry returned (None, None) although its candidate
\* raised the lock-out error.
C11_Witness ==
    /\ pc = "returned"
    /\ ~args.retry_on_failure
    /\ result = NotFound
    /\ locked

\* A retrying call returns a token only; its first pass has no insertion
\* prompt and the prompt is shown on retries only.
RetryingCall ==
    args.retry_on_failure
        => /\ pc = "returned" => result.state = "found"
           /\ pc = "discover" => retry_counter = 0
           /\ pc = "insert_prompt" => retry_counter > 0

\* The insertion prompt is entered from the end of a failed pass only,
\* once per pass, and is left for the discovery of the next pass only.
PromptBetweenPasses ==
    /\ (pc # "insert_prompt" /\ pc' = "insert_prompt")
          => (PassEnds /\ retry_counter' = retry_counter + 1)
    /\ (pc = "insert_prompt" /\ pc' # "insert_prompt")
          => (pc' = "candidate" /\ UNCHANGED retry_counter)
    /\ (pc = "discover" /\ pc' # "discover") => pc' = "candidate"

\* C12: with retry_on_failure the call never returns (None, None); the
\* first pass runs without an insertion prompt, every failed pass is
\* followed by one insertion prompt and another pass, whatever the number
\* of passes so far.
C12_RetriesUntilFound ==
    /\ []RetryingCall
    /\ [][PromptBetweenPasses]_vars
    /\ [][(PassEnds /\ args.retry_on_failure)
            => (pc' = "insert_prompt" /\ retry_counter' = retry_counter + 1)]_vars

\* A retrying call found its token on a pass that followed an insertion
\* prompt.
C12_Witness ==
    /\ Found
    /\ args.retry_on_failure
    /\ retry_counter > 0

(*************************************************************************)
(* More properties of the walk.                                          *)
(*************************************************************************)
IsPrefix(s, t) == Len(s) <= Len(t) /\ SubSeq(t, 1, Len(s)) = s

\* The walk over the first k revisions of the history.
WalkOfFirst(k) ==
    sorted_commits_per_repositories(SubSeq(store, 1, k),
                                    AllRevisions(SubSeq(store, 1, k)))

\* C18: the timelines after the first k revisions are prefixes of the
\* timelines after the first k+1 revisions (stated for the last revision
\* of every history; every k is the last revision of some history).
C18_TimelinesAppendOnly ==
    (Returned /\ Len(store) > 0)
        => LET before == WalkOfFirst(Len(store) - 1)
           IN  /\ before.exc = None
               /\ \A p \in DOMAIN before.value :
                     /\ p \in DOMAIN walk.value
                     /\ IsPrefix(before.value[p], walk.value[p])

\* The second revision added a commit to a timeline the first revision
\* had started, and started another timeline.
C18_Witness ==
    /\ Returned
    /\ Len(store) = 2
    /\ WalkOfFirst(1).value = [p \in {"A"} |-> <<"c1">>]
    /\ walk.value = [p \in {"A", "B"} |->
                        IF p = "A" THEN <<"c1", "c2">> ELSE <<"c1">>]

\* C19: no document fault aborts the walk: the call returns also when a
\* root document has no signed.targets or a descriptor is not an object.
C19_NoFaultAbortsWalk == Walked => walk.exc = None

(*************************************************************************)
(* Properties of the token operations.                                   *)
(*************************************************************************)
Ended == op.state \in {"returned", "raised"}

\* No token that is plugged in is the one the call asks for.
NoTokenMatches ==
    /\ op.name # None
    /\ IF op.pub_key_pem # NoPem
       THEN \A serial \in inserted :
               \/ device[serial].cert = None
               \/ ~PemMatches(Pem(device[serial].cert), op.pub_key_pem)
       ELSE IF op.serial = NoSerial THEN inserted = {}
                                    ELSE op.serial \notin inserted

\* C13: a token operation that finds no token of the requested serial or
\* public key gets no session and ends with YubikeyError.
C13_NoTokenIsYubikeyError ==
    NoTokenMatches
        => /\ op.state # "body"
           /\ Ended => (op.state = "raised" /\ op.exc = "YubikeyError")

\* sign_piv_rsa_pkcs1v15 was asked for the key of token 2 while token 1
\* alone is plugged in, and has raised.
C13_Witness ==
    /\ op.name = "sign_piv_rsa_pkcs1v15"
    /\ op.state = "raised"
    /\ inserted = {1}
    /\ op.pub_key_pem = ButLast(Pem(KeyOf(2)))
    /\ NoTokenMatches

\* The order of the token operations of setup as the documentation gives
\* it.
ProvisioningOrder ==
    <<"reset", "authenticate_default", "set_management_key", "select_slot",
      "put_key", "put_certificate", "set_pin_attempts", "change_pin",
      "change_puk">>

InProvisioningOrder(call) ==
    \E i \in 1..Len(ProvisioningOrder) : ProvisioningOrder[i] = call

\* C14: the token operations of setup happen in the documented order,
\* none is skipped when setup returns, and key and certificate are in the
\* same slot.
C14_SetupOrder ==
    op.name = "setup"
        => /\ IsPrefix(SelectSeq(op.log, InProvisioningOrder),
                       ProvisioningOrder)
           /\ op.state = "returned"
                => /\ SelectSeq(op.log, InProvisioningOrder) = ProvisioningOrder
                   /\ device[op.ses].key = op.key
                   /\ device[op.ses].cert = op.key

\* setup has returned after all its calls.
C14_Witness ==
    /\ op.name = "setup"
    /\ op.state = "returned"
    /\ Len(op.log) = Len(SetupSteps)

\* setup has returned on a token that a setup had completed on before.
SecondSetupReturned ==
    /\ op.name = "setup"
    /\ op.state = "returned"
    /\ op.first # None

C16_PinVerifiedBeforeSign ==
    /\ [](op.name = "sign_piv_rsa_pkcs1v15"
            => /\ op.value.form = "signature"
                    => IsPrefix(<<"verify_pin", "sign">>, op.log)
               /\ op.state = "returned"
                    => (op.log = <<"verify_pin", "sign">>
                        /\ op.value.form = "signature")
               /\ op.state = "raised"
                    => (op.value = NoValue /\ op.exc = "YubikeyError"))
    /\ [][(/\ op.name = "sign_piv_rsa_pkcs1v15"
           /\ op.state = "body"
           /\ ~VerifyPin(device, attempts, op.ses, op.pin))
            => (op'.state = "raised" /\ op'.value = NoValue)]_vars

\* The call raised in its session, on a token that holds a key, for a
\* wrong PIN.
C16_Witness ==
    /\ op.name = "sign_piv_rsa_pkcs1v15"
    /\ op.state = "raised"
    /\ op.ses # NoSerial
    /\ device[op.ses].key # None
    /\ op.pin # device[op.ses].pin

\* C17: at most one connection is open, and none when no token operation
\* is in its with block.
C17_OneConnectionPerOperation ==
    /\ Cardinality(conn) <= 1
    /\ op.state \in {"idle", "search", "returned", "raised"} => conn = {}

\* The search by public key has closed the first token and opened the
\* second.
C17_Witness ==
    /\ op.state = "opened"
    /\ op.pub_key_pem # NoPem
    /\ inserted = Serials
    /\ Len(op.cand) = 1
    /\ conn = {Head(op.cand)}

\* setup is past the reset and the call in hand fails.
SetupCallFails ==
    /\ op.name = "setup"
    /\ op.state = "body"
    /\ op.step > 1
    /\ \/ op'.state = "raised"
       \/ /\ SetupSteps[op.step] # "select_slot"
          /\ SetupException(SetupSteps[op.step], device[op.ses],
                            attempts[op.ses], op) # None

\* C20: a call of setup that fails after the reset ends setup with
\* YubikeyError; nothing is done to the token after it, which stays as the
\* calls before it left it: not as a completed setup leaves a token, the
\* key it held before the call gone.
C20_NoRollback ==
    /\ [][SetupCallFails
            => /\ op'.state = "raised"
               /\ op'.exc = "YubikeyError"
               /\ op'.log = op.log
               /\ device' = device]_vars
    /\ []((op.name = "setup" /\ op.state = "raised" /\ op.log # <<>>)
            => /\ ~Completed(device[op.ses])
               /\ device[op.ses].key \in {None, op.key}
               /\ device[op.ses].cert \in {None, op.key})

\* setup has failed after it wrote the key and before it wrote the
\* certificate, on a token that held a key before.
C20_Witness ==
    /\ op.name = "setup"
    /\ op.state = "raised"
    /\ op.first # None
    /\ device[op.ses].key = op.key
    /\ op.key # None
    /\ device[op.ses].cert = None

(*************************************************************************)
(* More properties of setup.                                             *)
(*************************************************************************)
\* C21: the setup calls of one process install different management
\* keys: no two tokens hold the same management key unless it is the
\* default one.
C21_FreshManagementKey ==
    \A s1, s2 \in Serials :
        (s1 # s2 /\ device[s1].mgm # DEFAULT_MANAGEMENT_KEY)
            => device[s1].mgm # device[s2].mgm

\* C22: while the program blocks on a prompt (insertion, PIN, retry
\* confirmation, PEM password) no connection to a token is open.
C22_NoSessionWhilePrompting ==
    (Prompting \/ op.state = "password_prompt") => conn = {}

\* C23: whenever yubikey_prompt returns a token for key_name, the registry
\* maps key_name to the serial of that token.
C23_NameMappedOnSuccess ==
    Found => get_key_serial_by_id(ids, args.key_name) = result.serial

(*************************************************************************)
(* More properties of yubikey_prompt.                                    *)
(*************************************************************************)
\* The step caches a PIN for the serial.
CachesPin(serial) ==
    get_key_pin(yks', serial) # get_key_pin(yks, serial)

\* The token with that serial is plugged in and has just verified the PIN
\* that is now cached.
VerifiedCachedPin(serial) ==
    /\ SessionOpens(inserted, serial)
    /\ attempts[serial] > 0
    /\ get_key_pin(yks', serial) = TokenPin(serial)
    /\ attempts'[serial] = PinAttempts

\* The step changes the PIN cache, the public-key cache, the name index or
\* the loaded roles.
ChangesCaches == <<yks, ids, loaded>>' # <<yks, ids, loaded>>

\* C24: when not creating a new key a PIN is cached only once the token
\* with that serial verified it; the caches, the name index and the loaded
\* roles change in the step that finds the token and in no other (not on a
\* wrong PIN, a declined retry, a lock-out or an exception), and a found
\* token is returned without a further change, so a call that returns
\* (None, None) has changed none of them.
C24_CachesChangeOnSuccessOnly ==
    /\ [][\A serial \in Serials :
            (CachesPin(serial) /\ ~args.creating_new_key)
                => VerifiedCachedPin(serial)]_vars
    /\ [][ChangesCaches => (~Found /\ Found')]_vars
    /\ [][(pc # "idle" /\ pc' = "returned" /\ result'.state # "found")
            => ~ChangesCaches]_vars

\* A call that verifies PINs returned (None, None) after a wrong PIN and a
\* declined retry: the token has lost an attempt, is not locked, and no
\* PIN is cached for it.
C24_Witness ==
    /\ pc = "returned"
    /\ result = NotFound
    /\ ~args.creating_new_key
    /\ ~locked
    /\ \E serial \in inserted :
          /\ attempts[serial] \in 1..(PinAttempts - 1)
          /\ get_key_pin(yks, serial) = None

\* Only setup writes to a token.
OnlySetupWrites == device' # device => op.name = "setup"

\* C25: setup selects the SIGNATURE slot and never ends with the
\* no-available-slot error; when it returns, the SIGNATURE slot of the
\* token holds the key and the certificate of the public key it returns;
\* no other operation writes to a token; export_piv_pub_key returns the
\* public key of that certificate and the signature is made with that key.
C25_SetupKeyIsTheTokenKey ==
    /\ [](op.name = "setup"
            => /\ op.slot \in {None, "SIGNATURE"}
               /\ op.state = "raised" /\ op.log # <<>>
                    => SetupSteps[op.step] # "select_slot"
               /\ op.state = "returned"
                    => /\ op.slot = "SIGNATURE"
                       /\ op.value.key # None
                       /\ device[op.ses].cert = op.value.key
                       /\ device[op.ses].key = op.value.key)
    /\ []((op.name = "export_piv_pub_key" /\ op.state = "returned")
            => op.value.key = device[op.ses].cert)
    /\ []((op.name = "sign_piv_rsa_pkcs1v15" /\ op.state = "returned")
            => op.value.key = device[op.ses].key)
    /\ [][OnlySetupWrites]_vars

\* export_piv_pub_key has returned the public key of a key that a setup of
\* this process generated, from the token that had its other slots full.
C25_Witness ==
    /\ op.name = "export_piv_pub_key"
    /\ op.state = "returned"
    /\ op.ses = 2
    /\ op.value.key = GeneratedKey(1)

====
